---- MODULE Spec2Model ----
(***************************************************************************)
(* Model of st-deep-hydro: the dataset processor of processing.py          *)
(* (min/max scaling with parameters fit on a training dataset, NaN         *)
(* filling), the observation/prediction merge of processing.py and the     *)
(* file discovery functions of ioutils.py.                                 *)
(*                                                                         *)
(* Numbers.  A float is a pair <<n, d>>: a reduced fraction n/d with       *)
(* d > 0, or NaN = <<0, 0>>, +inf = <<1, 0>>, -inf = <<-1, 0>>.            *)
(* Optional values.  Python's None is the empty tuple <<>>; the            *)
(* scaling_params tuple is <<min, max>>; a list held in an optional field  *)
(* is wrapped as <<list>>.                                                 *)
(***************************************************************************)
EXTENDS FiniteSets, Integers, Sequences, TLC

VARIABLES
    variables,        \* AbstractProcessor.__variables
    scaling_params,   \* AbstractProcessor.__scaling_params
    hds,              \* heap of HydroDataset objects: id -> fields
    xrs,              \* heap of xarray.Dataset objects: ref -> value
    cur,              \* id of the caller's HydroDataset (0: none yet)
    call,             \* the last call on the processor and its outcome
    train,            \* <<timeseries value, feature_cols>> of the last successful fit(), or None
    m_args,           \* the arguments of merge_observations_and_predictions
    m_call,           \* that call: its position, its outcome and the objects after it
    d_fs,             \* the entries below data_dir, in the order the directories list them
    d_args,           \* the arguments of a discovery function of ioutils.py
    d_call,           \* that call: the function, its outcome and what it returned
    cfg,              \* the ModelConfig object of the caller, AbstractModel._config
    self,             \* the caller's AbstractModel object: None or <<its fields>>
    objects,          \* the number of Keras models and History objects made so far
    saved,            \* a Keras model is stored at storage_path
    a_call            \* the last call of models.py and its outcome

procVars == <<variables, scaling_params, hds, xrs, cur, call, train>>

mergeVars == <<m_args, m_call>>

discVars == <<d_fs, d_args, d_call>>

modelVars == <<cfg, self, objects, saved, a_call>>

vars == <<procVars, mergeVars, discVars, modelVars>>

(***************************************************************************)
(* Bounds of the model                                                     *)
(***************************************************************************)
NBasin == 2      \* length of the basin dimension
NTime == 2       \* length of the time dimension
NY == 2          \* length of the y dimension
NX == 1          \* length of the x dimension
NSeeds == 3      \* number of sample arrays per coordinate set
MaxT == 3        \* time labels of the merged datasets are 1 .. MaxT
Modulus == 5     \* sample values are 0 .. Modulus - 2 and NaN

(***************************************************************************)
(* Floats                                                                  *)
(***************************************************************************)
None == <<>>

NaN == <<0, 0>>

PosInf == <<1, 0>>

NegInf == <<-1, 0>>

IsNaN(a) == a = NaN

IsFinite(a) == a[2] # 0

Abs(n) == IF n < 0 THEN -n ELSE n

RECURSIVE Gcd(_, _)
Gcd(a, b) == IF b = 0 THEN a ELSE Gcd(b, a % b)

\* the float n/d for integers n and d, d = 0 giving nan or an infinity
Frac(n, d) ==
    IF d = 0 THEN (IF n = 0 THEN NaN ELSE IF n > 0 THEN PosInf ELSE NegInf)
    ELSE LET s == IF d < 0 THEN -1 ELSE 1
             g == Gcd(Abs(n), Abs(d))
         IN  <<(s * n) \div g, (s * d) \div g>>

Num(k) == <<k, 1>>

\* a < b for floats that are not NaN
Less(a, b) ==
    IF IsFinite(a) /\ IsFinite(b) THEN a[1] * b[2] < b[1] * a[2]
    ELSE IF a = b THEN FALSE
    ELSE a = NegInf \/ b = PosInf

\* a - b in IEEE arithmetic
FSub(a, b) ==
    IF IsNaN(a) \/ IsNaN(b) THEN NaN
    ELSE IF IsFinite(a) /\ IsFinite(b) THEN Frac(a[1] * b[2] - b[1] * a[2], a[2] * b[2])
    ELSE IF IsFinite(b) THEN a
    ELSE IF IsFinite(a) THEN (IF b = PosInf THEN NegInf ELSE PosInf)
    ELSE IF a = b THEN NaN ELSE a

\* a / b in IEEE arithmetic
FDiv(a, b) ==
    IF IsNaN(a) \/ IsNaN(b) THEN NaN
    ELSE IF IsFinite(a) /\ IsFinite(b) THEN Frac(a[1] * b[2], a[2] * b[1])
    ELSE IF IsFinite(a) THEN Num(0)
    ELSE IF IsFinite(b) THEN (IF (b[1] < 0) = (a = PosInf) THEN NegInf ELSE PosInf)
    ELSE NaN

\* numpy's nanmin / nanmax of a non-empty set of floats: NaN is skipped, and
\* the result is NaN when nothing else is left
NanMin(S) ==
    LET T == {a \in S : ~IsNaN(a)}
    IN  IF T = {} THEN NaN ELSE CHOOSE a \in T : \A b \in T : ~Less(b, a)

NanMax(S) ==
    LET T == {a \in S : ~IsNaN(a)}
    IN  IF T = {} THEN NaN ELSE CHOOSE a \in T : \A b \in T : ~Less(a, b)

(***************************************************************************)
(* xarray.Dataset values: a set of dimension coordinates and, for each     *)
(* data variable, an array over these dimensions.  All datasets share the  *)
(* labels of a dimension, so that alignment by label is the identity.      *)
(***************************************************************************)
Dims == {"basin", "time", "y", "x"}

Vars == {"prcp", "streamflow"}

Size(d) ==
    CASE d = "basin" -> NBasin
      [] d = "time" -> NTime
      [] d = "y" -> NY
      [] d = "x" -> NX

MaxSize == NanMax({Num(Size(d)) : d \in Dims})[1]

\* the index tuples of an array with the dimensions D
IdxTable == [D \in SUBSET Dims |-> {i \in [D -> 1..MaxSize] : \A d \in D : i[d] <= Size(d)}]

Idx(D) == IdxTable[D]

Restrict(i, D) == [d \in D |-> i[d]]

\* Dataset.min(dims) / Dataset.max(dims): the reduction of every data
\* variable over the dimensions R, NaN skipped
Reduce(ds, R, agg) ==
    LET K == ds.coords \ R
        over(v, i) == {ds.data[v][j] : j \in {j \in Idx(ds.coords) : Restrict(j, K) = i}}
    IN  [coords |-> K,
         data |-> [v \in Vars |-> [i \in Idx(K) |->
                      IF agg = "min" THEN NanMin(over(v, i)) ELSE NanMax(over(v, i))]]]

DsMin(ds, R) == Reduce(ds, R, "min")

DsMax(ds, R) == Reduce(ds, R, "max")

\* binary arithmetic of two datasets: variables are matched by name and the
\* arrays are broadcast against each other over the union of their dimensions
Broadcast(a, b, op) ==
    LET x(v, i) == a.data[v][Restrict(i, a.coords)]
        y(v, i) == b.data[v][Restrict(i, b.coords)]
    IN  [coords |-> a.coords \cup b.coords,
         data |-> [v \in Vars |-> [i \in Idx(a.coords \cup b.coords) |->
                      IF op = "sub" THEN FSub(x(v, i), y(v, i)) ELSE FDiv(x(v, i), y(v, i))]]]

DsSub(a, b) == Broadcast(a, b, "sub")

DsDiv(a, b) == Broadcast(a, b, "div")

(***************************************************************************)
(* Sample input data                                                       *)
(***************************************************************************)
CoordSets ==
    { {"basin", "time"}, {"basin", "time", "y", "x"}, {"basin", "time", "y"},
      {"time"}, {"basin", "y", "x"} }

FeatureColsPool == { <<"prcp">>, <<"prcp", "streamflow">> }

Weight(d) ==
    CASE d = "basin" -> 1
      [] d = "time" -> 2
      [] d = "y" -> 3
      [] d = "x" -> 5

Lin(i) ==
    LET w(d) == IF d \in DOMAIN i THEN (i[d] - 1) * Weight(d) ELSE 0
    IN  w("basin") + w("time") + w("y") + w("x")

VarOffset(v) == IF v = "prcp" THEN 0 ELSE 1

\* the timeseries arrays over the coordinates D, with NaN cells
SampleTable ==
    [D \in CoordSets, seed \in 0..(NSeeds - 1) |->
        LET cell(v, i) ==
                LET k == (seed * (Lin(i) + 1) + VarOffset(v)) % Modulus
                IN  IF k = Modulus - 1 THEN NaN ELSE Num(k)
        IN  [coords |-> D, data |-> [v \in Vars |-> [i \in Idx(D) |-> cell(v, i)]]]]

Sample(D, seed) == SampleTable[D, seed]

\* the feature columns of the sample datasets
SampleFeatureCols(seed) == IF seed % 2 = 0 THEN <<"prcp">> ELSE <<"prcp", "streamflow">>

(***************************************************************************)
(* The heap.  A HydroDataset object holds a reference to its timeseries    *)
(* (an xarray.Dataset object) and its other attributes by value.           *)
(***************************************************************************)
NewId(h) == CHOOSE n \in 1..(Cardinality(DOMAIN h) + 1) :
                /\ n \notin DOMAIN h
                /\ \A m \in 1..(n - 1) : m \in DOMAIN h

HydroDataset(ref, feature_cols) ==
    [timeseries |-> ref, feature_cols |-> feature_cols, target_cols |-> <<"streamflow">>,
     start_date |-> 1, end_date |-> NTime]

\* the objects reachable from the HydroDataset objects hroots and the
\* xarray.Dataset objects xroots; everything else is garbage
Collect(p, hroots, xroots) ==
    LET H == hroots \cap DOMAIN p.hds
        X == (xroots \cup {p.hds[o].timeseries : o \in H}) \cap DOMAIN p.xrs
    IN  [p EXCEPT !.hds = [o \in H |-> p.hds[o]], !.xrs = [r \in X |-> p.xrs[r]]]

(***************************************************************************)
(* processing.py: AbstractProcessor and DefaultDatasetProcessor.  A method *)
(* maps the record p of the processor's fields and the heaps to the record *)
(* after the call; p.outcome is "ok" or the exception raised, p.ret the    *)
(* returned object.                                                        *)
(***************************************************************************)
FillValue == Num(-1)

Timeseries(p, ds) == p.xrs[p.hds[ds].timeseries]

\* a fit that reduces over time only, whatever the coordinates
fit_scaling_params_time_only(p, ds) ==
    LET ts == Timeseries(p, ds)
    IN  IF {"basin", "time"} \subseteq ts.coords
        THEN [p EXCEPT !.scaling_params = <<DsMin(ts, {"time"}), DsMax(ts, {"time"})>>]
        ELSE [p EXCEPT !.outcome = "ValueError"]

\* DefaultDatasetProcessor.__fit_scaling_params
fit_scaling_params(p, ds) ==
    LET ts == Timeseries(p, ds)
    IN  IF {"basin", "time", "y", "x"} \subseteq ts.coords
        THEN [p EXCEPT !.scaling_params =
                 <<DsMin(ts, {"time", "y", "x"}), DsMax(ts, {"time", "y", "x"})>>]
        ELSE IF {"basin", "time"} \subseteq ts.coords
        THEN [p EXCEPT !.scaling_params = <<DsMin(ts, {"time"}), DsMax(ts, {"time"})>>]
        ELSE [p EXCEPT !.outcome = "ValueError"]

\* a fit that takes the feature columns over before it fits the parameters
fit_variables_first(p, ds) ==
    [fit_scaling_params(p, ds) EXCEPT !.variables = <<p.hds[ds].feature_cols>>]

\* DefaultDatasetProcessor.fit
fit(p, ds) ==
    LET q == fit_scaling_params(p, ds)
    IN  IF q.outcome # "ok" THEN q
        ELSE [q EXCEPT !.variables = <<q.hds[ds].feature_cols>>]

\* a scaling that divides by the maximum instead of the range
Scaled_by_max(params, ts) ==
    LET min_params == IF params = None THEN DsMin(ts, ts.coords) ELSE params[1]
        max_params == IF params = None THEN DsMax(ts, ts.coords) ELSE params[2]
    IN  DsDiv(DsSub(ts, min_params), max_params)

\* the value AbstractProcessor.scale computes for the array ts
Scaled(params, ts) ==
    LET min_params == IF params = None THEN DsMin(ts, ts.coords) ELSE params[1]
        max_params == IF params = None THEN DsMax(ts, ts.coords) ELSE params[2]
    IN  DsDiv(DsSub(ts, min_params), DsSub(max_params, min_params))

\* AbstractProcessor.scale: the result is a new xarray.Dataset object
scale(p, ref) ==
    LET new == NewId(p.xrs)
    IN  [p EXCEPT !.xrs = (new :> Scaled(p.scaling_params, p.xrs[ref])) @@ p.xrs,
                  !.ret = new]

\* a fill of every variable of the dataset
FillNa_all(ts, names, value) ==
    [ts EXCEPT !.data = [v \in Vars |->
        [i \in DOMAIN ts.data[v] |-> IF IsNaN(ts.data[v][i]) THEN value ELSE ts.data[v][i]]]]

\* Dataset.fillna(value) on the variables of the list names
FillNa(ts, names, value) ==
    [ts EXCEPT !.data = [v \in Vars |->
        IF \E k \in DOMAIN names : names[k] = v
        THEN [i \in DOMAIN ts.data[v] |-> IF IsNaN(ts.data[v][i]) THEN value ELSE ts.data[v][i]]
        ELSE ts.data[v]]]

\* AbstractProcessor.fillna: ds[None] raises KeyError; otherwise the object
\* ref is updated in place and returned
fillna(p, ref, value) ==
    IF p.variables = None THEN [p EXCEPT !.outcome = "KeyError"]
    ELSE [p EXCEPT !.xrs[ref] = FillNa(p.xrs[ref], p.variables[1], value), !.ret = ref]

\* no copy: the caller's object itself is processed
no_copy(p, ds) == [p EXCEPT !.ret = ds]

\* copy.copy(ds): a new HydroDataset object with the fields of ds
shallow_copy(p, ds) ==
    LET c == NewId(p.hds)
    IN  [p EXCEPT !.hds = (c :> p.hds[ds]) @@ p.hds, !.ret = c]

\* a process() that fits the processor at every call
always_fit(p) == TRUE

\* the test of process() that decides whether it fits the processor first
not_fit(p) == p.scaling_params = None

\* DefaultDatasetProcessor.process
process(p, ds) ==
    LET p1 == IF not_fit(p) THEN fit_scaling_params(p, ds) ELSE p
        p2 == shallow_copy(p1, ds)
        c  == p2.ret
        p3 == scale(p2, p2.hds[c].timeseries)
        p4 == [p3 EXCEPT !.hds[c].timeseries = p3.ret]
        p5 == fillna(p4, p4.hds[c].timeseries, FillValue)
        p6 == [p5 EXCEPT !.hds[c].timeseries = p5.ret, !.ret = c]
    IN  IF p1.outcome # "ok" THEN p1
        ELSE IF p5.outcome # "ok" THEN p5
        ELSE p6

(***************************************************************************)
(* The processor as a state machine                                        *)
(***************************************************************************)
\* the fields and heaps a method starts from
Enter == [variables |-> variables, scaling_params |-> scaling_params,
          hds |-> hds, xrs |-> xrs, outcome |-> "ok", ret |-> 0]

\* the state after a method has left p; the caller keeps its dataset and
\* the returned object
Leave(p, op, hroots, xroots) ==
    LET q == Collect(p, {cur} \cup hroots, xroots)
    IN  /\ variables' = q.variables
        /\ scaling_params' = q.scaling_params
        /\ hds' = q.hds
        /\ xrs' = q.xrs
        /\ call' = [op |-> op, outcome |-> q.outcome,
                    ret |-> IF q.outcome = "ok" THEN q.ret ELSE 0]

TypeOK ==
    /\ cur \in {0, 1}
    /\ cur # 0 => cur \in DOMAIN hds
    /\ \A o \in DOMAIN hds : hds[o].timeseries \in DOMAIN xrs
    /\ call.outcome \in {"ok", "ValueError", "KeyError"}
    /\ scaling_params = None \/ Len(scaling_params) = 2
    /\ variables = None \/ variables[1] \in FeatureColsPool

\* DefaultDatasetProcessor(variables): a new processor, not fit
InitProc ==
    /\ variables \in {None} \cup {<<fc>> : fc \in FeatureColsPool}
    /\ scaling_params = None
    /\ hds = <<>>
    /\ xrs = <<>>
    /\ cur = 0
    /\ call = [op |-> "init", outcome |-> "ok", ret |-> 0]
    /\ train = None

\* the caller builds a dataset and drops the objects of earlier calls
Load ==
    \E D \in CoordSets, seed \in 0..(NSeeds - 1) :
        /\ cur' = 1
        /\ hds' = (1 :> HydroDataset(1, SampleFeatureCols(seed)))
        /\ xrs' = (1 :> Sample(D, seed))
        /\ call' = [op |-> "load", outcome |-> "ok", ret |-> 0]
        /\ UNCHANGED <<variables, scaling_params, train, mergeVars, discVars, modelVars>>

\* processor.fit(ds)
Fit ==
    /\ cur # 0
    /\ LET q == fit(Enter, cur)
       IN  /\ Leave(q, "fit", {}, {})
           /\ train' = IF q.outcome = "ok"
                     THEN <<Timeseries(Enter, cur), hds[cur].feature_cols>>
                     ELSE train
    /\ UNCHANGED <<cur, mergeVars, discVars, modelVars>>

\* processor.process(ds)
Process ==
    /\ cur # 0
    /\ LET q == process(Enter, cur)
       IN  Leave(q, "process", IF q.outcome = "ok" THEN {q.ret} ELSE {}, {})
    /\ UNCHANGED <<cur, train, mergeVars, discVars, modelVars>>

\* processor.scale(ds.timeseries)
Scale ==
    /\ cur # 0
    /\ LET q == scale(Enter, hds[cur].timeseries)
       IN  Leave(q, "scale", {}, {q.ret})
    /\ UNCHANGED <<cur, train, mergeVars, discVars, modelVars>>

(***************************************************************************)
(* processing.py: merge_observations_and_predictions.  A dataset here is   *)
(* its time index, a strictly increasing sequence of labels, and for each  *)
(* data variable the sequence of its values along time.                    *)
(***************************************************************************)
RECURSIVE SortedSeq(_)
SortedSeq(S) ==
    IF S = {} THEN <<>>
    ELSE LET x == CHOOSE x \in S : \A y \in S : x <= y
         IN  <<x>> \o SortedSeq(S \ {x})

TimeIndexes == {SortedSeq(S) : S \in SUBSET (1..MaxT)}

MergeNames == {"streamflow", "prcp"}

ObsValue(v, t) == Num(2 * t + VarOffset(v))

PredValue(v, t) == Num(0 - (2 * t + VarOffset(v)))

\* a dataset of observations or of predictions with the variables names
\* on the time index time
TimeDataset(names, time, observed) ==
    [time |-> time,
     data |-> [v \in names |-> [k \in 1..Len(time) |->
                  IF observed THEN ObsValue(v, time[k]) ELSE PredValue(v, time[k])]]]

Keys(ds) == DOMAIN ds.data

\* no selection: every variable of the dataset is kept
Select_all(ds, names) == ds

\* ds[variables]: the dataset of the listed variables
Select(ds, names) == [ds EXCEPT !.data = [v \in names |-> ds.data[v]]]

\* ds.sel(time=slice(start_date, end_date)): the labels from start_date to
\* end_date, both included
SelTime(ds, start_date, end_date) ==
    LET keep == SelectSeq([k \in 1..Len(ds.time) |-> k],
                          LAMBDA k : start_date <= ds.time[k] /\ ds.time[k] <= end_date)
    IN  [time |-> [k \in 1..Len(keep) |-> ds.time[keep[k]]],
         data |-> [v \in Keys(ds) |-> [k \in 1..Len(keep) |-> ds.data[v][keep[k]]]]]

\* ds.rename({param: param + suffix for param in names}): the other
\* variables keep their name
Rename(ds, names, suffix) ==
    LET new(v) == IF v \in names THEN v \o suffix ELSE v
    IN  [ds EXCEPT !.data = [w \in {new(v) : v \in Keys(ds)} |->
            ds.data[CHOOSE v \in Keys(ds) : new(v) = w]]]

\* the values of the variable v of ds on the time index time, NaN where ds
\* has no such label
Reindex(ds, v, time) ==
    [k \in 1..Len(time) |->
        IF \E j \in 1..Len(ds.time) : ds.time[j] = time[k]
        THEN ds.data[v][CHOOSE j \in 1..Len(ds.time) : ds.time[j] = time[k]]
        ELSE NaN]

\* xr.merge([a, b], join): the variables of a and b on the index of a
\* (join = "left") or of b (join = "right")
XrMerge(a, b, join) ==
    LET time == IF join = "left" THEN a.time ELSE b.time
    IN  [time |-> time,
         data |-> [v \in Keys(a) \cup Keys(b) |->
                      IF v \in Keys(a) THEN Reindex(a, v, time) ELSE Reindex(b, v, time)]]

\* a merge that always joins on the prediction index
join_left(use_pred_timeframe) == "left"

\* the join of the merge, by use_pred_timeframe
join_of(use_pred_timeframe) == IF use_pred_timeframe THEN "left" ELSE "right"

\* merge_observations_and_predictions: the outcome, the returned dataset and
\* the two argument objects after the call
merge_observations_and_predictions(ds_observation, ds_prediction, use_pred_timeframe) ==
    LET vs     == Keys(ds_prediction)
        frame  == IF use_pred_timeframe THEN ds_prediction ELSE ds_observation
        ds_obs == Rename(SelTime(Select(ds_observation, vs),
                                 frame.time[1], frame.time[Len(frame.time)]), vs, "_obs")
        ds_prd == Rename(ds_prediction, vs, "_pred")
        after  == [ds_observation |-> ds_observation, ds_prediction |-> ds_prediction]
    IN  IF Len(frame.time) = 0
        THEN [outcome |-> "IndexError", ret |-> None, after |-> after]
        ELSE IF ~(vs \subseteq Keys(ds_observation))
        THEN [outcome |-> "KeyError", ret |-> None, after |-> after]
        ELSE [outcome |-> "ok",
              ret |-> <<XrMerge(ds_prd, ds_obs, join_of(use_pred_timeframe))>>,
              after |-> after]

MergeIdle ==
    /\ m_args = None
    /\ m_call = [pc |-> "idle"]

\* the caller's two datasets and flag
InitMerge ==
    /\ \E on \in SUBSET MergeNames, pn \in SUBSET MergeNames, ot \in TimeIndexes,
          pt \in TimeIndexes, flag \in BOOLEAN :
          m_args = [ds_observation |-> TimeDataset(on, ot, TRUE),
                    ds_prediction |-> TimeDataset(pn, pt, FALSE),
                    use_pred_timeframe |-> flag]
    /\ m_call = [pc |-> "ready"]

\* merge_observations_and_predictions(ds_observation, ds_prediction, flag)
Merge ==
    /\ m_call.pc = "ready"
    /\ LET r == merge_observations_and_predictions(
                    m_args.ds_observation, m_args.ds_prediction, m_args.use_pred_timeframe)
       IN  m_call' = [pc |-> "done", outcome |-> r.outcome, ret |-> r.ret, after |-> r.after]
    /\ UNCHANGED <<m_args, procVars, discVars, modelVars>>

(***************************************************************************)
(* ioutils.py: file discovery.  A file name is a sequence of tokens (a     *)
(* digit, or a literal piece of a file name pattern); a path is the        *)
(* sequence of names from data_dir down; an entry of the directory tree is *)
(* a path and whether it is a directory.                                   *)
(***************************************************************************)
Star == "*"

\* the tokens that begin with a dot
DotTokens == {".", ".nc", ".txt"}

\* glob._ishidden
IsHidden(name) == Len(name) > 0 /\ name[1] \in DotTokens

\* fnmatch: the name matches the pattern, Star matching any tokens
RECURSIVE FnMatch(_, _)
FnMatch(name, pat) ==
    IF pat = <<>> THEN name = <<>>
    ELSE IF Head(pat) = Star
    THEN \E k \in 0..Len(name) : FnMatch(SubSeq(name, k + 1, Len(name)), Tail(pat))
    ELSE name # <<>> /\ Head(name) = Head(pat) /\ FnMatch(Tail(name), Tail(pat))

Parent(path) == SubSeq(path, 1, Len(path) - 1)

BaseName(path) == path[Len(path)]

\* os.scandir(dir): the entries of the directory dir, in listing order
ListDir(fs, dir) == SelectSeq(fs, LAMBDA e : Len(e.path) > 0 /\ Parent(e.path) = dir)

RECURSIVE Flatten(_)
Flatten(seqs) == IF seqs = <<>> THEN <<>> ELSE Head(seqs) \o Flatten(Tail(seqs))

\* glob._rlistdir: the directories below dir, each followed by the
\* directories below it; hidden ones are skipped
RECURSIVE RListDir(_, _)
RListDir(fs, dir) ==
    LET subs == SelectSeq(ListDir(fs, dir), LAMBDA e : e.dir /\ ~IsHidden(BaseName(e.path)))
    IN  Flatten([k \in 1..Len(subs) |-> <<subs[k].path>> \o RListDir(fs, subs[k].path)])

\* glob._glob1: the paths of the entries of dir whose name matches pat;
\* hidden entries match only a pattern that is hidden itself
Glob1(fs, dir, pat) ==
    LET hit == SelectSeq(ListDir(fs, dir), LAMBDA e :
                   /\ IsHidden(pat) \/ ~IsHidden(BaseName(e.path))
                   /\ FnMatch(BaseName(e.path), pat))
    IN  [k \in 1..Len(hit) |-> hit[k].path]

\* glob.glob(f"{data_dir}/{pat}")
Glob(fs, pat) == Glob1(fs, <<>>, pat)

\* glob.glob(f"{data_dir}/**/{pat}", recursive=True): data_dir first, then
\* the directories below it
GlobRecursive(fs, pat) ==
    LET dirs == <<(<<>>)>> \o RListDir(fs, <<>>)
    IN  Flatten([k \in 1..Len(dirs) |-> Glob1(fs, dirs[k], pat)])

Raised(exception) == [outcome |-> exception, ret |-> None, warned |-> FALSE]

Returned(path, warned) == [outcome |-> "ok", ret |-> <<path>>, warned |-> warned]

\* a discovery that refuses several matches
single_streamflow_file_strict(fs, basin) ==
    LET files == GlobRecursive(fs, basin \o <<"_streamflow_qc.txt">>)
    IN  IF Len(files) # 1 THEN Raised("FileNotFoundError")
        ELSE Returned(files[1], FALSE)

\* discover_single_file_for_basin
discover_single_file_for_basin(fs, basin) ==
    LET files == GlobRecursive(fs, <<Star>> \o basin \o <<Star>>)
    IN  IF Len(files) = 0 THEN Raised("FileNotFoundError")
        ELSE Returned(files[1], Len(files) > 1)

\* discover_single_daymet_file_for_basin
discover_single_daymet_file_for_basin(fs, basin) ==
    LET files == GlobRecursive(fs, <<Star>> \o basin \o <<Star, ".nc">>)
    IN  IF Len(files) = 0 THEN Raised("FileNotFoundError")
        ELSE Returned(files[1], Len(files) > 1)

\* a type_dict that names the Daymet files by the forcings type
type_dict_by_type == [daymet |-> "daymet", maurer |-> "maurer", nldas |-> "nldas"]

\* type_dict of the CAMELS-US forcings functions
type_dict == [daymet |-> "cida", maurer |-> "maurer", nldas |-> "nldas"]

\* discover_single_camels_us_forcings_file
discover_single_camels_us_forcings_file(fs, forcings_type, basin) ==
    LET files == GlobRecursive(fs, basin \o <<"_lump_", type_dict[forcings_type],
                                              "_forcing_leap.txt">>)
    IN  IF forcings_type \in DOMAIN type_dict
        THEN IF Len(files) = 0 THEN Raised("FileNotFoundError")
             ELSE Returned(files[1], Len(files) > 1)
        ELSE Raised("ValueError")

\* discover_single_camels_us_streamflow_file
discover_single_camels_us_streamflow_file(fs, basin) ==
    LET files == GlobRecursive(fs, basin \o <<"_streamflow_qc.txt">>)
    IN  IF Len(files) = 0 THEN Raised("FileNotFoundError")
        ELSE Returned(files[1], Len(files) > 1)

\* the characters of a token of a file name
CharsOf(token) ==
    CASE token = "_lump_" -> <<"_", "l", "u", "m", "p", "_">>
      [] token = "cida" -> <<"c", "i", "d", "a">>
      [] token = "maurer" -> <<"m", "a", "u", "r", "e", "r">>
      [] token = "nldas" -> <<"n", "l", "d", "a", "s">>
      [] token = "_forcing_leap.txt" ->
             <<"_", "f", "o", "r", "c", "i", "n", "g", "_", "l", "e", "a", "p", ".", "t", "x", "t">>
      [] OTHER -> <<token>>

\* the characters of a name
Chars(name) == Flatten([k \in 1..Len(name) |-> CharsOf(name[k])])

\* the length of a basin ID in the name of a forcings file
BasinIdLen == 8

\* a basin ID read from the first two characters
basin_id_short(path) == SubSeq(Chars(BaseName(path)), 1, 2)

\* os.path.basename(f)[0:8]
basin_id(path) ==
    LET chars == Chars(BaseName(path))
    IN  SubSeq(chars, 1, IF Len(chars) < BasinIdLen THEN Len(chars) ELSE BasinIdLen)

\* discover_multiple_camels_us_forcings_files; basins is None or <<list>>
discover_multiple_camels_us_forcings_files(fs, forcings_type, basins) ==
    LET files == GlobRecursive(fs, <<Star, "_lump_", type_dict[forcings_type],
                                     "_forcing_leap.txt">>)
    IN  IF forcings_type \in DOMAIN type_dict
        THEN [outcome |-> "ok",
              ret |-> IF basins # None
                      THEN SelectSeq(files, LAMBDA f :
                               \E k \in 1..Len(basins[1]) : Chars(basins[1][k]) = basin_id(f))
                      ELSE files,
              warned |-> FALSE]
        ELSE Raised("ValueError")

\* the file name pattern of a Daymet variable
daymet_pattern(variable) == <<Star, "_daymet_v4_daily_na_", variable, "_", Star, ".nc">>

\* a discovery that refuses a variable without files
discover_daymet_files_strict(fs, variables_) ==
    LET files == [k \in 1..Len(variables_) |->
                     Glob1(fs, << <<variables_[k]>> >>, daymet_pattern(variables_[k]))]
    IN  IF \E k \in 1..Len(variables_) : files[k] = <<>>
        THEN [outcome |-> "FileNotFoundError", ret |-> None, warned |-> FALSE]
        ELSE [outcome |-> "ok", ret |-> Flatten(files), warned |-> FALSE]

\* discover_daymet_files: the loop over variables appends the matches of
\* glob.glob(f"{root_data_dir}/{variable}/*_daymet_v4_daily_na_{variable}_*.nc")
\* to file_list, and warns for a variable without any
discover_daymet_files(fs, variables_) ==
    LET files == [k \in 1..Len(variables_) |->
                     Glob1(fs, << <<variables_[k]>> >>, daymet_pattern(variables_[k]))]
    IN  [outcome |-> "ok", ret |-> Flatten(files),
         warned |-> \E k \in 1..Len(variables_) : files[k] = <<>>]

(***************************************************************************)
(* Sample directory trees                                                  *)
(***************************************************************************)
File(path) == [path |-> path, dir |-> FALSE]

Dir(path) == [path |-> path, dir |-> TRUE]

Sub == <<"s", "u", "b">>

Deep == <<"d", "e", "e", "p">>

\* the entries a tree is made of, a directory before what it holds
Universe ==
    << File(<< <<"1", "2", ".nc">> >>),
       File(<< <<"0", "1", "2", ".nc", "4">> >>),
       File(<< <<"1", "2", "_lump_", "cida", "_forcing_leap.txt">> >>),
       File(<< <<"1", "2", "_streamflow_qc.txt">> >>),
       File(<< <<".", "1", "2", ".nc">> >>),
       Dir(<< Sub >>),
       File(<< Sub, <<"1", "2", ".nc">> >>),
       File(<< Sub, <<"1", "2", "_lump_", "cida", "_forcing_leap.txt">> >>),
       Dir(<< Sub, Deep >>),
       File(<< Sub, Deep, <<"1", "2", "_streamflow_qc.txt">> >>) >>

BasinPool == { <<"1", "2">>, <<"2">> }

ForcingsTypePool == {"daymet", "maurer", "nldas", "era5"}

Reverse(seq) == [k \in 1..Len(seq) |-> seq[Len(seq) + 1 - k]]

\* the trees: the entries of Universe numbered in S, listed in the order of
\* Universe or in the opposite order, every entry with its directory
Trees ==
    LET pick(S) == SelectSeq(Universe, LAMBDA e : \E k \in S : Universe[k] = e)
        closed(S) == \A k \in S : Len(Universe[k].path) > 1 =>
                        \E j \in S : Universe[j] = Dir(Parent(Universe[k].path))
    IN  UNION {{pick(S), Reverse(pick(S))} : S \in {S \in SUBSET (1..Len(Universe)) : closed(S)}}

\* the trees made of the entries of universe, as Trees is made of Universe
TreesOf(universe) ==
    LET pick(S) == SelectSeq(universe, LAMBDA e : \E k \in S : universe[k] = e)
        closed(S) == \A k \in S : Len(universe[k].path) > 1 =>
                        \E j \in S : universe[j] = Dir(Parent(universe[k].path))
    IN  UNION {{pick(S), Reverse(pick(S))} : S \in {S \in SUBSET (1..Len(universe)) : closed(S)}}

\* the name of a Daymet file of a variable
DaymetName(n, variable) == <<n, "_daymet_v4_daily_na_", variable, "_", n, ".nc">>

\* a Daymet root directory: variable directories with files of the variable,
\* of another variable, of another kind, hidden ones and nested ones
DaymetUniverse ==
    << File(<< DaymetName("1", "prcp") >>),
       Dir(<< <<"prcp">> >>),
       File(<< <<"prcp">>, DaymetName("1", "prcp") >>),
       File(<< <<"prcp">>, DaymetName("2", "prcp") >>),
       File(<< <<"prcp">>, DaymetName("1", "tmax") >>),
       File(<< <<"prcp">>, <<".">> \o DaymetName("1", "prcp") >>),
       File(<< <<"prcp">>, <<"1", "_streamflow_qc.txt">> >>),
       Dir(<< <<"prcp">>, Sub >>),
       File(<< <<"prcp">>, Sub, DaymetName("1", "prcp") >>),
       Dir(<< <<"tmax">> >>),
       File(<< <<"tmax">>, DaymetName("1", "tmax") >>) >>

DaymetTrees == TreesOf(DaymetUniverse)

VariablesPool ==
    { <<>>, <<"prcp">>, <<"tmax">>, <<"prcp", "tmax">>, <<"tmax", "prcp">>, <<"srad", "prcp">> }

\* two basin IDs of CAMELS-US
Basin1 == <<"0", "1", "0", "1", "3", "5", "0", "0">>

Basin2 == <<"0", "1", "0", "2", "2", "5", "0", "0">>

\* the name of a forcings file
ForcingsName(id, token) == id \o <<"_lump_", token, "_forcing_leap.txt">>

\* a CAMELS-US forcings directory: files of two basins and three forcings
\* types at several depths, and files whose ID has seven or nine or two digits
ForcingsUniverse ==
    << File(<< ForcingsName(Basin1, "cida") >>),
       File(<< ForcingsName(Basin2, "nldas") >>),
       File(<< ForcingsName(Basin1 \o <<"7">>, "cida") >>),
       File(<< ForcingsName(<<"1", "2">>, "cida") >>),
       Dir(<< Sub >>),
       File(<< Sub, ForcingsName(Basin2, "cida") >>),
       File(<< Sub, ForcingsName(Basin1, "maurer") >>),
       Dir(<< Sub, Deep >>),
       File(<< Sub, Deep, ForcingsName(Basin1, "cida") >>),
       File(<< Sub, Deep, ForcingsName(SubSeq(Basin2, 1, 7), "cida") >>) >>

ForcingsTrees == TreesOf(ForcingsUniverse)

\* the forcings types of a call: the three types, a file name token and another
ForcingsTypes == ForcingsTypePool \cup {"cida"}

\* the basins of a call: None or a list
BasinsPool ==
    { None, << <<>> >>, << <<Basin1>> >>, << <<Basin2, Basin1>> >>,
      << <<SubSeq(Basin2, 1, 7)>> >>, << <<(<<"1", "2", "_lump_">>)>> >> }

DiscIdle ==
    /\ d_fs = <<>>
    /\ d_args = None
    /\ d_call = [pc |-> "idle"]

\* a directory tree and the arguments of a call
InitDiscover ==
    /\ d_fs \in Trees
    /\ \E basin \in BasinPool, forcings_type \in ForcingsTypePool :
          d_args = [basin |-> basin, forcings_type |-> forcings_type]
    /\ d_call = [pc |-> "ready"]

Done(fn, r) ==
    /\ d_call' = [pc |-> "done", fn |-> fn, outcome |-> r.outcome, ret |-> r.ret,
                  warned |-> r.warned]
    /\ UNCHANGED <<d_fs, d_args, procVars, mergeVars, modelVars>>

DiscoverSingleFile ==
    /\ d_call.pc = "ready"
    /\ Done("discover_single_file_for_basin",
            discover_single_file_for_basin(d_fs, d_args.basin))

DiscoverSingleDaymetFile ==
    /\ d_call.pc = "ready"
    /\ Done("discover_single_daymet_file_for_basin",
            discover_single_daymet_file_for_basin(d_fs, d_args.basin))

DiscoverSingleForcingsFile ==
    /\ d_call.pc = "ready"
    /\ Done("discover_single_camels_us_forcings_file",
            discover_single_camels_us_forcings_file(d_fs, d_args.forcings_type, d_args.basin))

DiscoverSingleStreamflowFile ==
    /\ d_call.pc = "ready"
    /\ Done("discover_single_camels_us_streamflow_file",
            discover_single_camels_us_streamflow_file(d_fs, d_args.basin))

\* a Daymet root directory and the variables of a call
InitDaymet ==
    /\ d_fs \in DaymetTrees
    /\ \E variables_ \in VariablesPool : d_args = [variables |-> variables_]
    /\ d_call = [pc |-> "ready"]

DiscoverDaymetFiles ==
    /\ d_call.pc = "ready"
    /\ Done("discover_daymet_files", discover_daymet_files(d_fs, d_args.variables))

\* a forcings directory and the arguments of a call
InitForcings ==
    /\ d_fs \in ForcingsTrees
    /\ \E basin \in {Basin1, Basin2}, forcings_type \in ForcingsTypes, basins \in BasinsPool :
          d_args = [basin |-> basin, forcings_type |-> forcings_type, basins |-> basins]
    /\ d_call = [pc |-> "ready"]

DiscoverMultipleForcingsFiles ==
    /\ d_call.pc = "ready"
    /\ Done("discover_multiple_camels_us_forcings_files",
            discover_multiple_camels_us_forcings_files(d_fs, d_args.forcings_type,
                                                       d_args.basins))

(***************************************************************************)
(* models.py: AbstractModel, its subclasses, factory and load_model.  A    *)
(* dict is a record of its possible keys, the value of a key being <<>>    *)
(* when the key is missing and <<value>> otherwise.  A Keras model and a   *)
(* History object are the numbers of their creation.                       *)
(***************************************************************************)
\* the objects a behaviour may create
MaxObjects == 3

\* a value of the parameter hiddenLayers: an int, or a float of that value
IntValue(n) == [int |-> TRUE, val |-> n]

FloatValue(n) == [int |-> FALSE, val |-> n]

\* d[key] raises KeyError
Missing(d, key) == d[key] = <<>>

\* d[key]
Get(d, key) == d[key][1]

Classes ==
    {"LstmModel", "CnnLstmModel", "MultiInputCnnLstmModel", "ConvLstmModel", "Conv3DModel"}

\* the classes whose parameters have a section lstm, and a section cnn
WithLstm == {"LstmModel", "CnnLstmModel", "MultiInputCnnLstmModel"}

WithCnn == Classes \ {"LstmModel"}

\* LstmModel._get_and_validate_params: "ok" or the exception raised
lstm_get_and_validate_params(params) ==
    IF Missing(params, "lstm") THEN "ConfigError"
    ELSE LET p == Get(params, "lstm")
         IN  IF Missing(p, "hiddenLayers") \/ Missing(p, "units") THEN "ConfigError"
             ELSE IF Len(Get(p, "units")) # Get(p, "hiddenLayers").val THEN "ConfigError"
             ELSE IF Missing(p, "dropout") THEN "ConfigError"
             ELSE IF Len(Get(p, "dropout")) # Get(p, "hiddenLayers").val THEN "ConfigError"
             ELSE "ok"

\* __get_and_validate_lstm_params of CnnLstmModel and MultiInputCnnLstmModel
get_and_validate_lstm_params(p) ==
    IF Missing(p, "hiddenLayers") \/ Missing(p, "units") THEN "ConfigError"
    ELSE IF ~Get(p, "hiddenLayers").int THEN "ConfigError"
    ELSE IF Get(p, "hiddenLayers").val < 0 THEN "ConfigError"
    ELSE IF Len(Get(p, "units")) # Get(p, "hiddenLayers").val THEN "ConfigError"
    ELSE IF Missing(p, "dropout") THEN "ConfigError"
    ELSE IF Len(Get(p, "dropout")) # Get(p, "hiddenLayers").val THEN "ConfigError"
    ELSE "ok"

\* __get_and_validate_cnn_params of the four classes with CNN layers
get_and_validate_cnn_params(p) ==
    IF Missing(p, "hiddenLayers") \/ Missing(p, "filters") THEN "ConfigError"
    ELSE IF ~Get(p, "hiddenLayers").int THEN "ConfigError"
    ELSE IF Get(p, "hiddenLayers").val < 0 THEN "ConfigError"
    ELSE IF Len(Get(p, "filters")) # Get(p, "hiddenLayers").val THEN "ConfigError"
    ELSE "ok"

\* _get_and_validate_params of the class: "ok" or the exception raised
get_and_validate_params(class, params) ==
    IF class = "LstmModel" THEN lstm_get_and_validate_params(params)
    ELSE IF Missing(params, "cnn") THEN "ConfigError"
    ELSE IF get_and_validate_cnn_params(Get(params, "cnn")) # "ok" THEN "ConfigError"
    ELSE IF class \in {"ConvLstmModel", "Conv3DModel"} THEN "ok"
    ELSE IF Missing(params, "lstm") THEN "ConfigError"
    ELSE get_and_validate_lstm_params(Get(params, "lstm"))

\* _build_model of the class for validated params: range() refuses a float,
\* the last of no layers is out of range, and Keras (accepted) may refuse
\* the layers for the input shape
build_model(class, params, accepted) ==
    LET hidden == {Get(Get(params, "lstm"), "hiddenLayers") : c \in {class} \cap WithLstm}
                      \cup {Get(Get(params, "cnn"), "hiddenLayers") : c \in {class} \cap WithCnn}
    IN  IF \E h \in hidden : ~h.int THEN "TypeError"
        ELSE IF \E h \in hidden : h.val = 0 THEN "IndexError"
        ELSE IF accepted THEN "ok"
        ELSE "ValueError"

\* AbstractModel.__init__
AbstractModel(class) ==
    [class |-> class, model |-> None, history |-> None, eval_results |-> None]

\* the setter of AbstractModel.model
model_setter(this, model) == [this EXCEPT !.model = model]

\* the state a method starts from: this is the object it is called on
Begin == [this |-> self[1], cfg |-> cfg, objects |-> objects, saved |-> saved,
          outcome |-> "ok"]

\* a build that drops the model before it validates the parameters
build_from_scratch(a, accepted) ==
    LET v == get_and_validate_params(a.this.class, a.cfg.params)
    IN  IF v # "ok" THEN [a EXCEPT !.outcome = v, !.this.model = None]
        ELSE [a EXCEPT !.this.model = <<a.objects + 1>>, !.objects = a.objects + 1]

\* AbstractModel.build
build(a, accepted) ==
    LET v == get_and_validate_params(a.this.class, a.cfg.params)
        b == build_model(a.this.class, a.cfg.params, accepted)
    IN  IF v # "ok" THEN [a EXCEPT !.outcome = v]
        ELSE IF b # "ok" THEN [a EXCEPT !.outcome = b]
        ELSE [a EXCEPT !.this.model = <<a.objects + 1>>, !.objects = a.objects + 1]

\* AbstractModel.compile_and_fit: None has no compile(); Keras (fits) may
\* fail to fit the datasets
compile_and_fit(a, fits) ==
    IF a.this.model = None THEN [a EXCEPT !.outcome = "AttributeError"]
    ELSE IF ~fits THEN [a EXCEPT !.outcome = "ValueError"]
    ELSE [a EXCEPT !.this.history = <<a.objects + 1>>, !.objects = a.objects + 1]

\* AbstractModel.evaluate
evaluate(a) ==
    IF a.this.model = None THEN [a EXCEPT !.outcome = "AttributeError"] ELSE a

\* AbstractModel.prediction_to_dataset
prediction_to_dataset(a) == a

\* AbstractModel.predict
predict(a, as_dataset) ==
    IF a.this.model = None THEN [a EXCEPT !.outcome = "AttributeError"]
    ELSE IF as_dataset THEN prediction_to_dataset(a)
    ELSE a

\* AbstractModel.save_model
save_model(a) ==
    IF a.this.model = None THEN [a EXCEPT !.outcome = "AttributeError"]
    ELSE [a EXCEPT !.saved = TRUE]

\* a factory that validates the parameters of the model it makes
factory_eager(c) ==
    LET class == CASE c.model_type = "lstm" -> "LstmModel"
                   [] c.model_type = "cnn-lstm" -> "CnnLstmModel"
                   [] c.model_type = "multi-cnn-lstm" -> "MultiInputCnnLstmModel"
                   [] c.model_type = "convlstm" -> "ConvLstmModel"
                   [] c.model_type = "conv3d" -> "Conv3DModel"
                   [] OTHER -> "LstmModel"
    IN  IF get_and_validate_params(class, c.params) # "ok"
        THEN [outcome |-> "ConfigError", ret |-> None]
        ELSE [outcome |-> "ok", ret |-> <<AbstractModel(class)>>]

\* factory: the new object, or the exception raised
factory(c) ==
    IF c.model_type = "lstm" THEN [outcome |-> "ok", ret |-> <<AbstractModel("LstmModel")>>]
    ELSE IF c.model_type = "cnn-lstm"
    THEN [outcome |-> "ok", ret |-> <<AbstractModel("CnnLstmModel")>>]
    ELSE IF c.model_type = "multi-cnn-lstm"
    THEN [outcome |-> "ok", ret |-> <<AbstractModel("MultiInputCnnLstmModel")>>]
    ELSE IF c.model_type = "convlstm"
    THEN [outcome |-> "ok", ret |-> <<AbstractModel("ConvLstmModel")>>]
    ELSE IF c.model_type = "conv3d"
    THEN [outcome |-> "ok", ret |-> <<AbstractModel("Conv3DModel")>>]
    ELSE [outcome |-> "ValueError", ret |-> None]

\* load_model: Keras raises OSError when nothing is stored at storage_path
load_model(c, stored, made) ==
    LET f == factory(c)
    IN  IF f.outcome # "ok" THEN [outcome |-> f.outcome, ret |-> None, objects |-> made]
        ELSE IF ~stored THEN [outcome |-> "OSError", ret |-> None, objects |-> made]
        ELSE [outcome |-> "ok", ret |-> <<model_setter(f.ret[1], <<made + 1>>)>>,
              objects |-> made + 1]

(***************************************************************************)
(* Sample model configurations                                             *)
(***************************************************************************)
\* the section lstm of params: consistent, with too few units, without
\* dropout, with no layers, with a float and with a negative number of layers
LstmSections ==
    { [hiddenLayers |-> <<IntValue(1)>>, units |-> << <<32>> >>, dropout |-> << <<0>> >>],
      [hiddenLayers |-> <<IntValue(2)>>, units |-> << <<32>> >>, dropout |-> << <<0, 0>> >>],
      [hiddenLayers |-> <<IntValue(1)>>, units |-> << <<32>> >>, dropout |-> <<>>],
      [hiddenLayers |-> <<IntValue(0)>>, units |-> << <<>> >>, dropout |-> << <<>> >>],
      [hiddenLayers |-> <<FloatValue(1)>>, units |-> << <<32>> >>, dropout |-> << <<0>> >>],
      [hiddenLayers |-> <<IntValue(-1)>>, units |-> << <<>> >>, dropout |-> << <<>> >>] }

\* the section cnn of params: consistent, with too many filters, without
\* hiddenLayers and with a float number of layers
CnnSections ==
    { [hiddenLayers |-> <<IntValue(2)>>, filters |-> << <<8, 16>> >>],
      [hiddenLayers |-> <<IntValue(1)>>, filters |-> << <<8, 16>> >>],
      [hiddenLayers |-> <<>>, filters |-> << <<8>> >>],
      [hiddenLayers |-> <<FloatValue(1)>>, filters |-> << <<8>> >>] }

\* ModelConfig.params: each section is there or missing
ParamsPool ==
    [lstm : {<<>>} \cup {<<l>> : l \in LstmSections}, cnn : {<<>>} \cup {<<c>> : c \in CnnSections}]

ModelTypePool == {"lstm", "cnn-lstm", "multi-cnn-lstm", "convlstm", "conv3d", "gru"}

ModelIdle ==
    /\ cfg = None
    /\ self = None
    /\ objects = 0
    /\ saved = FALSE
    /\ a_call = [op |-> "idle", outcome |-> "ok"]

\* the caller holds a ModelConfig and no model yet; a model may be stored
InitModel ==
    /\ cfg \in [model_type : ModelTypePool, params : ParamsPool]
    /\ self = None
    /\ objects = 0
    /\ saved \in BOOLEAN
    /\ a_call = [op |-> "config", outcome |-> "ok"]

\* the state after a method has left a
End(a, op) ==
    /\ self' = <<a.this>>
    /\ objects' = a.objects
    /\ saved' = a.saved
    /\ cfg' = a.cfg
    /\ a_call' = [op |-> op, outcome |-> a.outcome]
    /\ UNCHANGED <<procVars, mergeVars, discVars>>

\* the result of factory or load_model: the caller keeps the new object
Made(r, op) ==
    /\ self' = IF r.outcome = "ok" THEN r.ret ELSE self
    /\ a_call' = [op |-> op, outcome |-> r.outcome]
    /\ UNCHANGED <<cfg, saved, procVars, mergeVars, discVars>>

\* LstmModel(cfg), CnnLstmModel(cfg), ...
Construct ==
    \E class \in Classes :
        /\ Made([outcome |-> "ok", ret |-> <<AbstractModel(class)>>], "init")
        /\ UNCHANGED objects

\* factory(cfg)
Factory ==
    /\ Made(factory(cfg), "factory")
    /\ UNCHANGED objects

\* load_model(storage_path, cfg)
LoadModel ==
    /\ objects < MaxObjects
    /\ LET r == load_model(cfg, saved, objects)
       IN  Made(r, "load_model") /\ objects' = r.objects

\* model.model = a Keras model or None
SetModel ==
    /\ self # None
    /\ objects < MaxObjects
    /\ \E fresh \in BOOLEAN :
          End([Begin EXCEPT !.this = model_setter(Begin.this,
                                         IF fresh THEN <<objects + 1>> ELSE None),
                            !.objects = IF fresh THEN objects + 1 ELSE objects],
              "model.setter")

\* model.build(input_shape)
Build ==
    /\ self # None
    /\ objects < MaxObjects
    /\ \E accepted \in BOOLEAN : End(build(Begin, accepted), "build")

\* model.compile_and_fit(training_ds_list, validation_ds_list)
CompileAndFit ==
    /\ self # None
    /\ objects < MaxObjects
    /\ \E fits \in BOOLEAN : End(compile_and_fit(Begin, fits), "compile_and_fit")

\* model.evaluate(test_ds_list)
Evaluate ==
    /\ self # None
    /\ End(evaluate(Begin), "evaluate")

\* model.predict(ds_list, basin, as_dataset)
Predict ==
    /\ self # None
    /\ \E as_dataset \in BOOLEAN : End(predict(Begin, as_dataset), "predict")

\* model.prediction_to_dataset(ds, predictions, basin)
PredictionToDataset ==
    /\ self # None
    /\ End(prediction_to_dataset(Begin), "prediction_to_dataset")

\* model.save_model(storage_path)
SaveModel ==
    /\ self # None
    /\ End(save_model(Begin), "save_model")

(***************************************************************************)
(* Specifications                                                          *)
(***************************************************************************)
ProcIdle ==
    /\ variables = None
    /\ scaling_params = None
    /\ hds = <<>>
    /\ xrs = <<>>
    /\ cur = 0
    /\ call = [op |-> "init", outcome |-> "ok", ret |-> 0]
    /\ train = None

\* the processor
Init == InitProc /\ MergeIdle /\ DiscIdle /\ ModelIdle

Next == Load \/ Fit \/ Process \/ Scale

Spec == Init /\ [][Next]_vars

\* the merge of observations and predictions
InitM == InitMerge /\ ProcIdle /\ DiscIdle /\ ModelIdle

NextM == Merge

SpecMerge == InitM /\ [][NextM]_vars

\* the file discovery
InitD == InitDiscover /\ ProcIdle /\ MergeIdle /\ ModelIdle

NextD ==
    \/ DiscoverSingleFile
    \/ DiscoverSingleDaymetFile
    \/ DiscoverSingleForcingsFile
    \/ DiscoverSingleStreamflowFile

SpecDiscover == InitD /\ [][NextD]_vars

\* the discovery of Daymet files
InitDm == InitDaymet /\ ProcIdle /\ MergeIdle /\ ModelIdle

NextDm == DiscoverDaymetFiles

SpecDaymet == InitDm /\ [][NextDm]_vars

\* the discovery of CAMELS-US forcings files
InitF == InitForcings /\ ProcIdle /\ MergeIdle /\ ModelIdle

NextF == DiscoverSingleForcingsFile \/ DiscoverMultipleForcingsFiles

SpecForcings == InitF /\ [][NextF]_vars

\* the models
InitA == InitModel /\ ProcIdle /\ MergeIdle /\ DiscIdle

NextA ==
    \/ Construct
    \/ Factory
    \/ LoadModel
    \/ SetModel
    \/ Build
    \/ CompileAndFit
    \/ Evaluate
    \/ Predict
    \/ PredictionToDataset
    \/ SaveModel

SpecModel == InitA /\ [][NextA]_vars


(***************************************************************************)
(* Properties of the processor                                             *)
(***************************************************************************)
\* the timeseries of the caller's dataset
CurTs == xrs[hds[cur].timeseries]

\* the timeseries of the dataset the last process() returned
RetTs == xrs[hds[call.ret].timeseries]

\* the cells of the array a that lie over the cell i of a reduction of a
Over(a, v, i) == {a.data[v][j] : j \in {j \in Idx(a.coords) : \A d \in DOMAIN i : j[d] = i[d]}}

\* min_params and max_params are the minimum and the maximum of ts over the
\* dimensions R, for every variable and every remaining index
IsMinMaxOver(params, ts, R) ==
    /\ Len(params) = 2
    /\ params[1].coords = ts.coords \ R
    /\ params[2].coords = ts.coords \ R
    /\ \A v \in Vars : \A i \in Idx(ts.coords \ R) :
          /\ params[1].data[v][i] = NanMin(Over(ts, v, i))
          /\ params[2].data[v][i] = NanMax(Over(ts, v, i))

\* the dimensions fit() reduces the array ts over
FitDims(ts) == IF {"y", "x"} \subseteq ts.coords THEN {"time", "y", "x"} ELSE {"time"}

\* (x - min) / (max - min) for the cell i of the variable v of ts
ScaledCell(params, ts, v, i) ==
    LET x  == ts.data[v][Restrict(i, ts.coords)]
        mn == params[1].data[v][Restrict(i, params[1].coords)]
        mx == params[2].data[v][Restrict(i, params[2].coords)]
    IN  FDiv(FSub(x, mn), FSub(mx, mn))

\* out is ts scaled with params
IsScaledWith(out, params, ts) ==
    /\ out.coords = ts.coords \cup params[1].coords
    /\ \A v \in Vars : \A i \in Idx(out.coords) : out.data[v][i] = ScaledCell(params, ts, v, i)

InList(v, names) == \E k \in 1..Len(names) : names[k] = v

\* C1: once fit(train) has succeeded, scaling_params stays the min/max of
\* train whatever datasets are processed afterwards
C1_ParamsStayTrain ==
    train # None => IsMinMaxOver(scaling_params, train[1], FitDims(train[1]))

\* a dataset other than train was processed whose own min/max differ
C1_Witness ==
    /\ train # None
    /\ call.op = "process"
    /\ call.outcome = "ok"
    /\ {"basin", "time"} \subseteq CurTs.coords
    /\ ~IsMinMaxOver(scaling_params, CurTs, FitDims(CurTs))

\* C2: process(ds) on a processor that was never fit ends as fit(ds)
\* followed by process(ds) does: same outcome, same returned data, same
\* scaling_params and variables
C2_ProcessFitsLikeFit ==
    [][(call'.op = "process" /\ scaling_params = None /\ Process) =>
          LET e == process(fit(Enter, cur), cur)
          IN  /\ call'.outcome = e.outcome
              /\ scaling_params' = e.scaling_params
              /\ variables' = e.variables
              /\ e.outcome = "ok" =>
                    xrs'[hds'[call'.ret].timeseries] = e.xrs[e.hds[e.ret].timeseries]]_vars

\* C3: process(ds) returns a new HydroDataset whose timeseries is the scaled
\* and filled array; ds keeps its timeseries object, whose content is
\* unchanged, and the copy has the other attributes of ds
C3_ProcessReturnsCopy ==
    [][(call'.op = "process" /\ call'.outcome = "ok" /\ Process) =>
          /\ call'.ret # cur
          /\ call'.ret \in DOMAIN hds'
          /\ hds'[cur] = hds[cur]
          /\ xrs'[hds[cur].timeseries] = xrs[hds[cur].timeseries]
          /\ hds'[call'.ret].timeseries # hds[cur].timeseries
          /\ hds'[call'.ret] = [hds[cur] EXCEPT !.timeseries = hds'[call'.ret].timeseries]
          /\ xrs'[hds'[call'.ret].timeseries] =
                FillNa(Scaled(scaling_params', CurTs), variables[1], FillValue)]_vars

\* process() returned data that differ from the data of its argument
C3_Witness ==
    /\ call.op = "process"
    /\ call.outcome = "ok"
    /\ RetTs # CurTs

\* C4: scale(ds) is (ds - min) / (max - min) per variable, with the fitted
\* scaling_params, or with the minimum and maximum of ds when the processor
\* is not fit; scaling_params is not changed
C4_Scale ==
    [][(call'.op = "scale" /\ Scale) =>
          /\ call'.outcome = "ok"
          /\ scaling_params' = scaling_params
          /\ IF scaling_params # None
             THEN IsScaledWith(xrs'[call'.ret], scaling_params, CurTs)
             ELSE \E own \in {<<DsMin(CurTs, CurTs.coords), DsMax(CurTs, CurTs.coords)>>} :
                     /\ IsMinMaxOver(own, CurTs, Dims)
                     /\ IsScaledWith(xrs'[call'.ret], own, CurTs)]_vars

\* scale() was called on a fit processor and gave a finite value that is
\* not the one the minimum and maximum of the array itself give
C4_Witness ==
    /\ call.op = "scale"
    /\ scaling_params # None
    /\ \E v \in Vars : \E i \in Idx(xrs[call.ret].coords) :
          /\ IsFinite(xrs[call.ret].data[v][i])
          /\ xrs[call.ret].data[v][i] # Scaled(None, CurTs).data[v][Restrict(i, CurTs.coords)]

\* scale() was called on a processor that is not fit
C4_WitnessNotFit ==
    /\ call.op = "scale"
    /\ scaling_params = None
    /\ \E v \in Vars : \E i \in Idx(xrs[call.ret].coords) :
          IsFinite(xrs[call.ret].data[v][i]) /\ xrs[call.ret].data[v][i] # Num(0)

\* C5: after fit(train), process(ds) gives -1 where a feature column of
\* train is NaN after scaling, and leaves the NaN of the other variables
C5_FillAfterScale ==
    (train # None /\ call.op = "process" /\ call.outcome = "ok") =>
        \A v \in Vars : \A i \in Idx(RetTs.coords) :
            LET sc == ScaledCell(scaling_params, CurTs, v, i)
            IN  RetTs.data[v][i] =
                    IF InList(v, train[2]) /\ IsNaN(sc) THEN Num(-1) ELSE sc

\* a feature cell was filled and a cell of another variable stayed NaN
C5_Witness ==
    /\ train # None
    /\ call.op = "process"
    /\ call.outcome = "ok"
    /\ \E v \in Vars : \E i \in Idx(RetTs.coords) :
          InList(v, train[2]) /\ RetTs.data[v][i] = Num(-1)
    /\ \E v \in Vars : \E i \in Idx(RetTs.coords) :
          ~InList(v, train[2]) /\ IsNaN(RetTs.data[v][i])

\* C6: fit() takes the minimum and maximum over time, y and x when the
\* coordinates hold basin, time, y and x, over time when they hold basin and
\* time, keeping the basin dimension, and raises ValueError otherwise
C6_FitReduction ==
    call.op = "fit" =>
        IF {"basin", "time", "y", "x"} \subseteq CurTs.coords
        THEN /\ call.outcome = "ok"
             /\ IsMinMaxOver(scaling_params, CurTs, {"time", "y", "x"})
             /\ "basin" \in scaling_params[1].coords
        ELSE IF {"basin", "time"} \subseteq CurTs.coords
        THEN /\ call.outcome = "ok"
             /\ IsMinMaxOver(scaling_params, CurTs, {"time"})
             /\ "basin" \in scaling_params[1].coords
        ELSE call.outcome = "ValueError"

\* fit() raised ValueError for an array without time coordinate and left
\* a fit processor behind
C6_Witness ==
    /\ call.op = "fit"
    /\ call.outcome = "ValueError"
    /\ "time" \notin CurTs.coords
    /\ train # None

\* fit() reduced an array with y but without x over time only
C6_WitnessLumped ==
    /\ call.op = "fit"
    /\ call.outcome = "ok"
    /\ CurTs.coords = {"basin", "time", "y"}
    /\ scaling_params[1].coords = {"basin", "y"}

\* fit() reduced a gridded array whose basins have different minima
C6_WitnessGridded ==
    /\ call.op = "fit"
    /\ call.outcome = "ok"
    /\ {"basin", "time", "y", "x"} \subseteq CurTs.coords
    /\ \E v \in Vars : \E i, j \in Idx({"basin"}) :
          scaling_params[1].data[v][i] # scaling_params[1].data[v][j]

(***************************************************************************)
(* Properties of the merge                                                 *)
(***************************************************************************)
MergeReturned == m_call.pc = "done" /\ m_call.outcome = "ok"

Merged == m_call.ret[1]

\* the value of the variable v of ds at the time label t, NaN without it
At(ds, v, t) ==
    IF \E j \in 1..Len(ds.time) : ds.time[j] = t
    THEN ds.data[v][CHOOSE j \in 1..Len(ds.time) : ds.time[j] = t]
    ELSE NaN

\* C7: the merged dataset holds exactly v_obs and v_pred for every
\* variable v of the prediction dataset, and the arguments are not modified
C7_MergedVariables ==
    MergeReturned =>
        LET obs  == m_args.ds_observation
            pred == m_args.ds_prediction
        IN  /\ Keys(Merged) = {v \o "_obs" : v \in Keys(pred)} \cup {v \o "_pred" : v \in Keys(pred)}
            /\ \A v \in Keys(obs) \ Keys(pred) : v \o "_obs" \notin Keys(Merged)
            /\ \A v \in Keys(obs) \cup Keys(pred) : v \notin Keys(Merged)
            /\ m_call.after.ds_observation = obs
            /\ m_call.after.ds_prediction = pred

\* a merge whose observations hold a variable the predictions do not
C7_Witness ==
    /\ MergeReturned
    /\ Keys(m_args.ds_prediction) # {}
    /\ Keys(m_args.ds_observation) \ Keys(m_args.ds_prediction) # {}

\* C8: the merged time index is that of the predictions when
\* use_pred_timeframe, with the observations aligned on it (NaN where they
\* are missing), and that of the observations otherwise
C8_MergedTimeframe ==
    MergeReturned =>
        LET obs  == m_args.ds_observation
            pred == m_args.ds_prediction
        IN  IF m_args.use_pred_timeframe
            THEN /\ Merged.time = pred.time
                 /\ \A v \in Keys(pred) : \A k \in 1..Len(pred.time) :
                       /\ Merged.data[v \o "_obs"][k] = At(obs, v, pred.time[k])
                       /\ Merged.data[v \o "_pred"][k] = pred.data[v][k]
            ELSE /\ Merged.time = obs.time
                 /\ \A v \in Keys(pred) : \A k \in 1..Len(obs.time) :
                       /\ Merged.data[v \o "_obs"][k] = obs.data[v][k]
                       /\ Merged.data[v \o "_pred"][k] = At(pred, v, obs.time[k])

\* observations outside the prediction timeframe and missing within it
C8_WitnessPred ==
    /\ MergeReturned
    /\ m_args.use_pred_timeframe
    /\ Keys(m_args.ds_prediction) # {}
    /\ LET ot == m_args.ds_observation.time
           pt == m_args.ds_prediction.time
       IN  /\ \E j \in 1..Len(ot) : ot[j] > pt[Len(pt)]
           /\ \E k \in 1..Len(pt) : \A j \in 1..Len(ot) : ot[j] # pt[k]
           /\ \E k \in 1..Len(pt) : \E j \in 1..Len(ot) : ot[j] = pt[k]

\* the observation timeframe is kept although the predictions cover another
C8_Witness ==
    /\ MergeReturned
    /\ ~m_args.use_pred_timeframe
    /\ Keys(m_args.ds_prediction) # {}
    /\ m_args.ds_prediction.time # m_args.ds_observation.time
    /\ Len(m_args.ds_prediction.time) > 0
    /\ Merged.time = m_args.ds_observation.time

(***************************************************************************)
(* Properties of the file discovery                                        *)
(***************************************************************************)
SingleFunctions ==
    {"discover_single_file_for_basin", "discover_single_daymet_file_for_basin",
     "discover_single_camels_us_forcings_file", "discover_single_camels_us_streamflow_file"}

\* the file name pattern of the function d_call.fn for the arguments d_args
PatternOf(fn) ==
    CASE fn = "discover_single_file_for_basin" -> <<Star>> \o d_args.basin \o <<Star>>
      [] fn = "discover_single_daymet_file_for_basin" -> <<Star>> \o d_args.basin \o <<Star, ".nc">>
      [] fn = "discover_single_camels_us_forcings_file" ->
            d_args.basin \o <<"_lump_", type_dict[d_args.forcings_type], "_forcing_leap.txt">>
      [] fn = "discover_single_camels_us_streamflow_file" ->
            d_args.basin \o <<"_streamflow_qc.txt">>

\* the paths at any depth below data_dir that match pat: no name on the
\* path is hidden and the last one matches
MatchSet(fs, pat) ==
    {fs[k].path : k \in {k \in 1..Len(fs) :
        /\ \A j \in 1..Len(fs[k].path) : ~IsHidden(fs[k].path[j])
        /\ FnMatch(BaseName(fs[k].path), pat)}}

\* a finished single-file discovery, with a valid forcings type
SingleCallDone ==
    /\ d_call.pc = "done"
    /\ d_call.fn \in SingleFunctions
    /\ d_call.fn = "discover_single_camels_us_forcings_file" =>
          d_args.forcings_type \in {"daymet", "maurer", "nldas"}

\* C9: a single-file discovery raises FileNotFoundError when nothing
\* matches; otherwise it returns the first match, and several matches only
\* log a warning
C9_SingleDiscovery ==
    SingleCallDone =>
        LET pat == PatternOf(d_call.fn)
        IN  IF MatchSet(d_fs, pat) = {}
            THEN d_call.outcome = "FileNotFoundError"
            ELSE /\ d_call.outcome = "ok"
                 /\ d_call.ret[1] \in MatchSet(d_fs, pat)
                 /\ d_call.ret[1] = GlobRecursive(d_fs, pat)[1]
                 /\ d_call.warned <=> Cardinality(MatchSet(d_fs, pat)) > 1

\* several files matched: the first was returned with a warning
C9_Witness ==
    /\ SingleCallDone
    /\ d_call.outcome = "ok"
    /\ d_call.warned
    /\ Cardinality(MatchSet(d_fs, PatternOf(d_call.fn))) > 1

\* nothing matched in a tree that is not empty
C9_WitnessNotFound ==
    /\ SingleCallDone
    /\ d_call.outcome = "FileNotFoundError"
    /\ d_fs # <<>>

\* C10: discover_single_file_for_basin looks for '{data_dir}/*{basin}*' and
\* discover_single_daymet_file_for_basin for '{data_dir}/*{basin}*.nc':
\* only an entry of data_dir itself is found
C10_DocumentedPattern ==
    (/\ d_call.pc = "done"
     /\ d_call.fn \in {"discover_single_file_for_basin",
                       "discover_single_daymet_file_for_basin"}) =>
        LET files == Glob(d_fs, PatternOf(d_call.fn))
        IN  IF files = <<>>
            THEN d_call.outcome = "FileNotFoundError"
            ELSE /\ d_call.outcome = "ok"
                 /\ d_call.ret[1] = files[1]
                 /\ Len(d_call.ret[1]) = 1

(***************************************************************************)
(* Properties of the discovery of several files                            *)
(***************************************************************************)
\* the position of an entry's path in the listing of the tree
ListingPos(fs, path) == CHOOSE k \in 1..Len(fs) : fs[k].path = path

\* the first position of a variable in variables
VariablePos(variables_, variable) ==
    CHOOSE k \in 1..Len(variables_) :
        variables_[k] = variable /\ \A j \in 1..(k - 1) : variables_[j] # variable

\* the path is one of a file directly in the directory of the variable whose
\* name is one of *_daymet_v4_daily_na_{variable}_*.nc
ConformsTo(path, variable) ==
    /\ Len(path) = 2
    /\ path[1] = <<variable>>
    /\ ~IsHidden(path[2])
    /\ FnMatch(path[2], daymet_pattern(variable))

DaymetCallDone == d_call.pc = "done" /\ d_call.fn = "discover_daymet_files"

\* C11: discover_daymet_files never raises; it returns, each once, the
\* files directly in {root}/{variable} named
\* *_daymet_v4_daily_na_{variable}_*.nc for the variables asked for, those of
\* an earlier variable before those of a later one and those of one variable
\* in listing order, and nothing else (the empty list when nothing matches)
C11_DaymetFiles ==
    DaymetCallDone =>
        LET vs  == d_args.variables
            ret == d_call.ret
            pos(path) == <<VariablePos(vs, path[1][1]), ListingPos(d_fs, path)>>
        IN  /\ d_call.outcome = "ok"
            /\ \A k \in 1..Len(ret) : \E j \in 1..Len(vs) : ConformsTo(ret[k], vs[j])
            /\ \A e \in {d_fs[k] : k \in 1..Len(d_fs)} :
                  (\E j \in 1..Len(vs) : ConformsTo(e.path, vs[j]))
                      => \E k \in 1..Len(ret) : ret[k] = e.path
            /\ \A j, k \in 1..Len(ret) :
                  j < k => \/ pos(ret[j])[1] < pos(ret[k])[1]
                           \/ /\ pos(ret[j])[1] = pos(ret[k])[1]
                              /\ pos(ret[j])[2] < pos(ret[k])[2]

\* a call for a variable without files and a variable with two, in a tree
\* that holds files of other names and places too
C11_Witness ==
    /\ DaymetCallDone
    /\ d_args.variables = <<"srad", "prcp">>
    /\ Len(d_call.ret) = 2
    /\ Len(d_fs) > 4

\* a call that finds nothing
C11_WitnessEmpty ==
    /\ DaymetCallDone
    /\ d_args.variables = <<"tmax", "prcp">>
    /\ Len(d_fs) > 2
    /\ d_call.ret = <<>>
    /\ d_call.outcome = "ok"

ForcingsFunctions ==
    {"discover_single_camels_us_forcings_file", "discover_multiple_camels_us_forcings_files"}

ForcingsCallDone == d_call.pc = "done" /\ d_call.fn \in ForcingsFunctions

MultipleCallDone ==
    d_call.pc = "done" /\ d_call.fn = "discover_multiple_camels_us_forcings_files"

\* the file name token of a forcings type
TokenOf(forcings_type) ==
    CASE forcings_type = "daymet" -> "cida"
      [] forcings_type = "maurer" -> "maurer"
      [] forcings_type = "nldas" -> "nldas"

\* the files of the tree that carry the token, anywhere below data_dir
FilesWithToken(fs, id, token) ==
    {fs[k].path : k \in {k \in 1..Len(fs) :
        ~fs[k].dir /\ FnMatch(BaseName(fs[k].path), id \o <<"_lump_", token, "_forcing_leap.txt">>)}}

SeqToSet(seq) == {seq[k] : k \in 1..Len(seq)}

C12_WitnessSingle ==
    /\ ForcingsCallDone /\ ~MultipleCallDone
    /\ d_args.forcings_type = "era5"
    /\ d_call.outcome = "ValueError"
    /\ FilesWithToken(d_fs, d_args.basin, "cida") # {}

\* a call for daymet that finds the cida files
C12_WitnessDaymet ==
    /\ MultipleCallDone
    /\ d_args.forcings_type = "daymet"
    /\ d_args.basins = None
    /\ Len(d_call.ret) > 2

\* the position of a path in a list of paths
PosIn(paths, path) == CHOOSE k \in 1..Len(paths) : paths[k] = path

\* C13: for a valid forcings type discover_multiple_camels_us_forcings_files
\* returns, in glob order and each once, the matched files whose base name's
\* first 8 characters are one of the basins, or all matched files when
\* basins is None; it returns the empty list when there is none and never
\* raises FileNotFoundError
C13_MultipleForcings ==
    MultipleCallDone =>
        /\ d_call.outcome # "FileNotFoundError"
        /\ d_args.forcings_type \in {"daymet", "maurer", "nldas"} =>
              LET matched == GlobRecursive(d_fs, <<Star, "_lump_", TokenOf(d_args.forcings_type),
                                                   "_forcing_leap.txt">>)
                  ret     == d_call.ret
                  first8(path) == LET c == Chars(BaseName(path))
                                  IN  [k \in 1..(IF Len(c) < 8 THEN Len(c) ELSE 8) |-> c[k]]
                  wanted(path) == \/ d_args.basins = None
                                  \/ \E b \in SeqToSet(d_args.basins[1]) : Chars(b) = first8(path)
              IN  /\ d_call.outcome = "ok"
                  /\ SeqToSet(ret) = {f \in SeqToSet(matched) : wanted(f)}
                  /\ \A j, k \in 1..Len(ret) :
                        j < k => PosIn(matched, ret[j]) < PosIn(matched, ret[k])

\* a call with basins that keeps some of the matched files and drops others,
\* one of them a file whose ID has seven digits
C13_Witness ==
    /\ MultipleCallDone
    /\ d_args.forcings_type = "daymet"
    /\ d_args.basins = << <<Basin2, Basin1>> >>
    /\ Len(d_call.ret) = 4
    /\ Len(GlobRecursive(d_fs, <<Star, "_lump_", "cida", "_forcing_leap.txt">>)) = 6

\* a call with basins none of which has a file: the empty list
C13_WitnessEmpty ==
    /\ MultipleCallDone
    /\ d_args.forcings_type = "nldas"
    /\ d_args.basins = << <<Basin1>> >>
    /\ Len(GlobRecursive(d_fs, <<Star, "_lump_", "nldas", "_forcing_leap.txt">>)) = 1
    /\ d_call.outcome = "ok"
    /\ d_call.ret = <<>>

(***************************************************************************)
(* Properties of the processor's failures                                  *)
(***************************************************************************)
\* C15: a fit(ds) or process(ds) that raises ValueError leaves
\* scaling_params and variables as they were before the call
C15_FailureKeepsState ==
    [][(call'.outcome = "ValueError" /\ (Fit \/ Process)) =>
          /\ scaling_params' = scaling_params
          /\ variables' = variables]_vars

\* fit() raised ValueError on a processor that was fit before, for a
\* dataset with other feature columns than the processor's variables
C15_Witness ==
    /\ call.op = "fit"
    /\ call.outcome = "ValueError"
    /\ scaling_params # None
    /\ train # None
    /\ variables # <<hds[cur].feature_cols>>

\* process() raised ValueError on a processor that was never fit
C15_WitnessProcess ==
    /\ call.op = "process"
    /\ call.outcome = "ValueError"
    /\ scaling_params = None
    /\ variables # None
    /\ variables # <<hds[cur].feature_cols>>

(***************************************************************************)
(* Properties of the models                                                *)
(***************************************************************************)
\* the class factory selects for a model type
ClassOf(model_type) ==
    CASE model_type = "lstm" -> "LstmModel"
      [] model_type = "cnn-lstm" -> "CnnLstmModel"
      [] model_type = "multi-cnn-lstm" -> "MultiInputCnnLstmModel"
      [] model_type = "convlstm" -> "ConvLstmModel"
      [] model_type = "conv3d" -> "Conv3DModel"

KnownType == cfg.model_type \in {"lstm", "cnn-lstm", "multi-cnn-lstm", "convlstm", "conv3d"}

\* the keys are there and every list has hiddenLayers entries
Complete(section, lists) ==
    /\ section # <<>>
    /\ section[1].hiddenLayers # <<>>
    /\ \A key \in lists :
          /\ section[1][key] # <<>>
          /\ Len(section[1][key][1]) = section[1].hiddenLayers[1].val

\* hiddenLayers is an int that is not negative
NaturalLayers(section) ==
    section[1].hiddenLayers[1].int /\ section[1].hiddenLayers[1].val >= 0

\* the validation rules of a class
ValidFor(class, params) ==
    CASE class = "LstmModel" -> Complete(params.lstm, {"units", "dropout"})
      [] class \in {"CnnLstmModel", "MultiInputCnnLstmModel"} ->
             /\ Complete(params.cnn, {"filters"}) /\ NaturalLayers(params.cnn)
             /\ Complete(params.lstm, {"units", "dropout"}) /\ NaturalLayers(params.lstm)
      [] class \in {"ConvLstmModel", "Conv3DModel"} ->
             Complete(params.cnn, {"filters"}) /\ NaturalLayers(params.cnn)

\* C14: ConfigError is the outcome of build() only; a constructor, factory
\* and load_model take any params of the ModelConfig (factory and load_model
\* make the class of a known model_type, load_model fails only for want of
\* a stored model), and build() raises ConfigError exactly when the params
\* break the validation rules of the object's class
C14_LazyValidation ==
    /\ a_call.outcome = "ConfigError" => a_call.op = "build"
    /\ a_call.op = "init" => a_call.outcome = "ok"
    /\ a_call.op = "factory" /\ KnownType =>
          a_call.outcome = "ok" /\ self[1].class = ClassOf(cfg.model_type)
    /\ a_call.op = "load_model" /\ KnownType =>
          IF saved THEN a_call.outcome = "ok" /\ self[1].class = ClassOf(cfg.model_type)
          ELSE a_call.outcome = "OSError"
    /\ a_call.op = "build" =>
          (a_call.outcome = "ConfigError" <=> ~ValidFor(self[1].class, cfg.params))

\* build() raised ConfigError on a model that load_model made from a
\* ModelConfig without the section cnn its model type needs
C14_Witness ==
    /\ a_call = [op |-> "build", outcome |-> "ConfigError"]
    /\ cfg.model_type = "cnn-lstm"
    /\ cfg.params.cnn = <<>>
    /\ self[1].class = "CnnLstmModel"
    /\ self[1].model # None

\* factory made a model from a ModelConfig with inconsistent params
C14_WitnessFactory ==
    /\ a_call = [op |-> "factory", outcome |-> "ok"]
    /\ cfg.model_type = "lstm"
    /\ cfg.params.lstm # <<>>
    /\ ~ValidFor("LstmModel", cfg.params)

ModelOf(s) == IF s = None THEN None ELSE s[1].model

HistoryOf(s) == IF s = None THEN None ELSE s[1].history

\* the step is a call of one of ops that returned
Returns(ops) == a_call'.op \in ops /\ a_call'.outcome = "ok"

\* what the lifecycle allows a step, the model being assigned by the calls
\* of assigning only
Lifecycle(assigning) ==
    /\ Returns({"init", "factory"}) => ModelOf(self') = None /\ HistoryOf(self') = None
    /\ ModelOf(self') # None /\ ModelOf(self') # ModelOf(self) => Returns(assigning)
    /\ a_call'.op = "build" /\ a_call'.outcome = "ConfigError" => self' = self
    /\ HistoryOf(self') # None /\ HistoryOf(self') # HistoryOf(self) =>
          Returns({"compile_and_fit"})
    /\ Returns({"load_model"}) => HistoryOf(self') = None
    /\ a_call'.op \in {"evaluate", "predict", "prediction_to_dataset", "save_model"} =>
          self' = self
    /\ cfg' = cfg

\* C16: a new object has no model and no history; the model becomes a new
\* Keras model only when build() returns or load_model assigns one; a
\* build() that raises ConfigError changes nothing; the history becomes a
\* History only when compile_and_fit returns, and is None after load_model;
\* evaluate, predict, prediction_to_dataset and save_model change neither;
\* the ModelConfig is never modified
C16_Lifecycle == [][Lifecycle({"build", "load_model"})]_vars

\* C16 as it holds: the setter of model assigns a model too
C16_LifecycleWithSetter == [][Lifecycle({"build", "load_model", "model.setter"})]_vars

\* build() raised ConfigError on an object with a model and a history
C16_Witness ==
    /\ a_call = [op |-> "build", outcome |-> "ConfigError"]
    /\ self[1].model # None
    /\ self[1].history # None

\* the setter gave a model to an object that never was built
C16_WitnessSetter ==
    /\ a_call = [op |-> "model.setter", outcome |-> "ok"]
    /\ self[1].model # None
    /\ objects = 1

====
